---- MODULE Spec2Model ----
(***************************************************************************)
(* Model of stellargraph/data/unsupervised_sampler.py: UnsupervisedSampler *)
(* (construction, run, _check_parameter_values) over a mutable graph, a    *)
(* seeded random stream per engine and a seeded uniform random walker.     *)
(***************************************************************************)
EXTENDS Integers, Sequences, FiniteSets, TLC

\* ---------------------------------------------------------------- bounds
MaxNodes == 3
MaxLength == 3
MaxWalks == 2
MaxCalls == 2
NumSeeds == 2
MaxMutations == 2

\* Python's None as a seed (seeds are naturals).
None == -1
Engines == {1, 2}

\* ------------------------------------------------------ sequence helpers
Range(s) == {s[i] : i \in 1..Len(s)}

\* Sums and concatenations split their range in halves.
RECURSIVE SumRange(_, _, _)
SumRange(s, lo, hi) ==
  IF lo > hi THEN 0
  ELSE IF lo = hi THEN s[lo]
  ELSE LET mid == (lo + hi) \div 2 IN SumRange(s, lo, mid) + SumRange(s, mid + 1, hi)

SumSeq(s) == SumRange(s, 1, Len(s))

RECURSIVE ConcatRange(_, _, _)
ConcatRange(ss, lo, hi) ==
  IF lo > hi THEN <<>>
  ELSE IF lo = hi THEN ss[lo]
  ELSE LET mid == (lo + hi) \div 2 IN
       ConcatRange(ss, lo, mid) \o ConcatRange(ss, mid + 1, hi)

Concat(ss) == ConcatRange(ss, 1, Len(ss))

Min(S) == CHOOSE x \in S : \A y \in S : x <= y

RECURSIVE SortedSeq(_)
SortedSeq(S) == IF S = {} THEN <<>> ELSE <<Min(S)>> \o SortedSeq(S \ {Min(S)})

Count(s, v) == Cardinality({i \in 1..Len(s) : s[i] = v})

\* ------------------------------------------------------------- the graph
\* graph.nodes: the node enumeration, in order; graph.edges: undirected edges.
Degree(g, n) == Cardinality({e \in g.edges : n \in e})

Neighbours(g, n) == SortedSeq({m \in Range(g.nodes) : {n, m} \in g.edges /\ m /= n})

AllEdges(ns) == {{a, b} : a, b \in ns} \ {{a} : a \in ns}

\* ------------------------------------------------------ the random stream
\* A seeded stream is a deterministic generator: its state after seeding is a
\* function of the seed, every draw advances the state and is a function of it.
\* The state is a position in the stream; the raw value of a draw is a fixed
\* scrambling of the position it leaves.
RngMod == 64

\* The state k draws after state s.
RngAt(s, k) == (s + k) % RngMod

RngNext(s) == RngAt(s, 1)

\* The raw value, in 0..RngMod-1, of the draw that leaves state s.
Raw(s) == (8 * s * s + 37 * s + 11) % RngMod

\* random_state(seed): seeded from the seed, or from ambient entropy without one.
random_state(seed, entropy) ==
  IF seed = None THEN entropy % RngMod ELSE (seed * 13 + 5) % RngMod

\* An integer in 0..n-1 from one raw draw.
RandBelow(raw, n) == (raw * n) \div RngMod

\* ------------------------------------------------------------ the walker
\* UniformRandomWalk(G, seed=seed): a stream of its own, seeded from the seed.
walker_state(seed, entropy) ==
  IF seed = None THEN (entropy * 5 + 3) % RngMod ELSE (seed * 29 + 17) % RngMod

\* One walk: start at the root, step to a uniformly drawn neighbour, stop early
\* at a node without neighbours.  walk is never empty; steps counts what is left.
RECURSIVE WalkFrom(_, _, _, _)
WalkFrom(g, walk, steps, rng) ==
  LET nb == Neighbours(g, walk[Len(walk)]) IN
  IF steps = 0 \/ nb = <<>> THEN [walk |-> walk, rng |-> rng]
  ELSE LET r == RngNext(rng) IN
       WalkFrom(g, Append(walk, nb[RandBelow(Raw(r), Len(nb)) + 1]), steps - 1, r)

RECURSIVE WalkAll(_, _, _, _, _)
WalkAll(g, roots, length, rng, acc) ==
  IF roots = <<>> THEN [walks |-> acc, rng |-> rng]
  ELSE LET w == WalkFrom(g, <<roots[1]>>, length - 1, rng) IN
       WalkAll(g, Tail(roots), length, w.rng, Append(acc, w.walk))

\* walker.run(nodes, length, n): n walks from every root node, in root order.
WalkerRun(g, rng, nodes, length, n) ==
  WalkAll(g, [i \in 1..(Len(nodes) * n) |-> nodes[((i - 1) \div n) + 1]],
          length, rng, <<>>)

\* ---------------------------------------------------- numpy random stream
\* degree ** 0.75, in thousandths.
Pow075(d) ==
  CASE d = 0 -> 0
    [] d = 1 -> 1000
    [] d = 2 -> 1682
    [] d = 3 -> 2280
    [] d = 4 -> 2828
    [] d = 5 -> 3344
    [] OTHER -> 3834

CumSums(w) == [i \in 1..Len(w) |-> SumRange(w, 1, i)]

\* cdf.searchsorted(u, side="right") with u = raw / RngMod and cdf = cum / total.
SearchSortedRight(cum, total, raw) ==
  Cardinality({i \in 1..Len(cum) : cum[i] * RngMod <= raw * total})

\* size draws, one raw value each: the element whose cdf interval holds it.
DrawSamples(rng, a, p, size) ==
  LET cum == CumSums(p.num)
      total == SumSeq(p.num)
  IN [ samples |-> [k \in 1..size |->
                      a[SearchSortedRight(cum, total, Raw(RngAt(rng, k))) + 1]],
       rng |-> RngAt(rng, size) ]

\* A probability vector is kept exact: entry i is num[i] / den.  den = 0 is the
\* result of dividing by a zero sum: NaN entries (or no entries at all).
\* RandomState.choice checks p before any draw: one entry per element of a, no
\* NaN, sum 1.
ChoiceError(a, p) ==
  Len(p.num) /= Len(a) \/ p.den = 0 \/ SumSeq(p.num) /= p.den

Choice(rng, a, size, p) ==
  IF ChoiceError(a, p) THEN [err |-> TRUE, samples |-> <<>>, rng |-> rng]
  ELSE LET d == DrawSamples(rng, a, p, size) IN
       [err |-> FALSE, samples |-> d.samples, rng |-> d.rng]

\* arr with positions j <= i exchanged.
Swap(arr, i, j) ==
  IF i = j THEN arr
  ELSE SubSeq(arr, 1, j - 1) \o <<arr[i]>> \o SubSeq(arr, j + 1, i - 1)
         \o <<arr[j]>> \o SubSeq(arr, i + 1, Len(arr))

\* Fisher-Yates from the last position down, one draw per position but the
\* first; positions are 1-based here.  The t-th swap moves position n - t + 1;
\* Shuffle applies the swaps lo..hi in order.
RECURSIVE Shuffle(_, _, _, _, _)
Shuffle(arr, n, lo, hi, rng) ==
  IF Len(arr) < 2 \/ lo > hi THEN arr
  ELSE IF lo = hi
  THEN LET i == n - lo + 1 IN Swap(arr, i, RandBelow(Raw(RngAt(rng, lo)), i) + 1)
  ELSE LET mid == (lo + hi) \div 2 IN
       Shuffle(Shuffle(arr, n, lo, mid, rng), n, mid + 1, hi, rng)

\* Mutant: n indices drawn independently, with repeats.
PermutationWithRepeats(rng, n) ==
  LET d == DrawSamples(rng, [i \in 1..n |-> i - 1],
                       [num |-> [i \in 1..n |-> 1], den |-> n], n)
  IN [perm |-> d.samples, rng |-> d.rng]

\* RandomState.permutation(n): a shuffled arange(n).
Permutation(rng, n) ==
  [ perm |-> Shuffle([i \in 1..n |-> i - 1], n, 1, n - 1, rng),
    rng  |-> RngAt(rng, IF n > 1 THEN n - 1 ELSE 0) ]

\* ------------------------------------------------------------- the state
VARIABLES
  graph,      \* the graph the engines refer to: [nodes, edges]
  eng,        \* eng[e]: engine e's fields
  hist,       \* hist[e]: what each call of run on engine e did, in call order
  mutations   \* number of graph mutations so far

vars == <<graph, eng, hist, mutations>>

\* ------------------------------------------------------- UnsupervisedSampler
\* Mutant: the stream is created without the seed.
InitNpRandomUnseeded(seed, entropy) == random_state(None, entropy)

\* The np_random field set by __init__.
InitNpRandom(seed, entropy) == random_state(seed, entropy)

\* __init__ with walker=None, for arguments that pass its checks.
UnsupervisedSampler(G, nodes, length, number_of_walks, seed, entropy) ==
  [ walker          |-> walker_state(seed, entropy),
    nodes           |-> IF nodes.omitted THEN G.nodes ELSE nodes.list,
    length          |-> length,
    number_of_walks |-> number_of_walks,
    seed            |-> seed,
    np_random       |-> InitNpRandom(seed, entropy) ]

\* A batch_size argument: its Python type and, for numbers, its value.
IntArg(n) == [kind |-> "int", val |-> n]
NoneArg == [kind |-> "none", val |-> 0]
FloatArg(n) == [kind |-> "float", val |-> n]
BoolArg == [kind |-> "bool", val |-> 1]

\* _check_parameter_values: "ok" or the error raised.
check_parameter_values(batch_size) ==
  IF batch_size.kind = "none" THEN "ValueError:missing"
  ELSE IF batch_size.kind /= "int" THEN "TypeError:integer"
  ELSE IF batch_size.val < 1 THEN "ValueError:positive"
  ELSE IF batch_size.val % 2 /= 0 THEN "ValueError:even"
  ELSE "ok"

Rejected(status) ==
  status \in {"ValueError:missing", "TypeError:integer", "ValueError:positive",
              "ValueError:even"}

\* Mutant: the weights of engine 1's first call are kept and reused.
SamplingDistributionCached(G, all_nodes) ==
  LET prev == SelectSeq(hist[1], LAMBDA r : r.weights /= <<>>) IN
  IF prev /= <<>> THEN prev[1].weights
  ELSE [i \in 1..Len(all_nodes) |-> Pow075(Degree(G, all_nodes[i]))]

\* sampling_distribution: one weight per node of all_nodes, in order.
SamplingDistribution(G, all_nodes) ==
  [i \in 1..Len(all_nodes) |-> Pow075(Degree(G, all_nodes[i]))]

\* Mutant: a zero sum falls back to equal probabilities instead of dividing.
NormaliseGuarded(w) ==
  IF SumSeq(w) = 0 THEN [num |-> [i \in 1..Len(w) |-> 1], den |-> Len(w)]
  ELSE [num |-> w, den |-> SumSeq(w)]

\* sampling_distribution / np.sum(sampling_distribution)
Normalise(w) == [num |-> w, den |-> SumSeq(w)]

\* Mutant: each context is paired with the node before it in the walk.
PositivePairsConsecutive(walks) ==
  Concat([k \in 1..Len(walks) |->
            [i \in 1..(Len(walks[k]) - 1) |-> <<walks[k][i], walks[k][i + 1]>>]])

\* positive_pairs: (walk[0], c) for every walk, for c in walk[1:].
PositivePairs(walks) ==
  Concat([k \in 1..Len(walks) |->
            [i \in 1..(Len(walks[k]) - 1) |-> <<walks[k][1], walks[k][i + 1]>>]])

\* Mutant: the columns are stacked the other way round.
NegativePairsSwapped(positive_pairs, negative_samples) ==
  [i \in 1..Len(positive_pairs) |-> <<negative_samples[i], positive_pairs[i][1]>>]

\* np.column_stack((positive_pairs[:, 0], negative_samples))
NegativePairs(positive_pairs, negative_samples) ==
  [i \in 1..Len(positive_pairs) |-> <<positive_pairs[i][1], negative_samples[i]>>]

\* Mutant: the first negative pair is labelled 1 as well.
LabelsOneOff(n) == [i \in 1..(2 * n) |-> IF i <= n + 1 THEN 1 ELSE 0]

\* np.repeat([1, 0], n)
Labels(n) == [i \in 1..(2 * n) |-> IF i <= n THEN 1 ELSE 0]

\* Mutant: a trailing chunk shorter than batch_size is dropped.
BatchIndicesDropShort(indices, batch_size) ==
  [b \in 1..(Len(indices) \div batch_size) |->
     SubSeq(indices, (b - 1) * batch_size + 1, b * batch_size)]

\* indices[i : i + batch_size] for i in range(0, len(indices), batch_size)
BatchIndices(indices, batch_size) ==
  [b \in 1..((Len(indices) + batch_size - 1) \div batch_size) |->
     SubSeq(indices, (b - 1) * batch_size + 1,
            IF b * batch_size < Len(indices) THEN b * batch_size ELSE Len(indices))]

\* (pairs[i], labels[i]) for a chunk i of 0-based indices
Batch(pairs, labels, chunk) ==
  [ pairs  |-> [k \in 1..Len(chunk) |-> pairs[chunk[k] + 1]],
    labels |-> [k \in 1..Len(chunk) |-> labels[chunk[k] + 1]] ]

\* What a call leaves behind: its status, the two streams after it and the
\* values of run's locals as far as the call got.
Outcome(status, batch_size, np_random, walker) ==
  [ status |-> status, batch_size |-> batch_size,
    np_random |-> np_random, walker |-> walker,
    all_nodes |-> <<>>, weights |-> <<>>, walks |-> <<>>,
    positive_pairs |-> <<>>, negative_samples |-> <<>>,
    pairs |-> <<>>, labels |-> <<>>, indices |-> <<>>,
    batch_indices |-> <<>>, batches |-> <<>> ]

\* run after the parameter check, on an engine with fields me whose graph is G.
RunBody(G, me, batch_size) ==
  LET all_nodes == G.nodes
      weights == SamplingDistribution(G, all_nodes)
      norm == Normalise(weights)
      w == WalkerRun(G, me.walker, me.nodes, me.length, me.number_of_walks)
      positive_pairs == PositivePairs(w.walks)
      c == Choice(me.np_random, all_nodes, Len(positive_pairs), norm)
      sofar == [Outcome("ok", batch_size, me.np_random, w.rng) EXCEPT
                  !.all_nodes = all_nodes, !.weights = weights,
                  !.walks = w.walks, !.positive_pairs = positive_pairs]
  IN
  IF c.err THEN [sofar EXCEPT !.status = "ValueError:probabilities"]
  ELSE IF positive_pairs = <<>>
  THEN [sofar EXCEPT !.status = "IndexError", !.np_random = c.rng,
                     !.negative_samples = c.samples]
  ELSE
    LET negative_pairs == NegativePairs(positive_pairs, c.samples)
        pairs == positive_pairs \o negative_pairs
        labels == Labels(Len(positive_pairs))
        perm == Permutation(c.rng, Len(pairs))
        batch_indices == BatchIndices(perm.perm, batch_size.val)
    IN [sofar EXCEPT !.np_random = perm.rng,
                     !.negative_samples = c.samples,
                     !.pairs = pairs, !.labels = labels,
                     !.indices = perm.perm,
                     !.batch_indices = batch_indices,
                     !.batches = [b \in 1..Len(batch_indices) |->
                                    Batch(pairs, labels, batch_indices[b])]]

\* Mutant: the walks are generated before the parameter check.
runWalkFirst(G, me, batch_size) ==
  LET w == WalkerRun(G, me.walker, me.nodes, me.length, me.number_of_walks)
      status == check_parameter_values(batch_size)
  IN IF status /= "ok"
     THEN Outcome(status, batch_size, me.np_random, w.rng)
     ELSE RunBody(G, me, batch_size)

\* run(batch_size): the parameter check first, then the body.
run(G, me, batch_size) ==
  LET status == check_parameter_values(batch_size) IN
  IF status /= "ok"
  THEN Outcome(status, batch_size, me.np_random, me.walker)
  ELSE RunBody(G, me, batch_size)

\* --------------------------------------------------------------- actions
\* One call of run on engine self: the streams move as far as the call got.
Call(self, batch_size) ==
  /\ Len(hist[self]) < MaxCalls
  /\ LET r == run(graph, eng[self], batch_size) IN
       /\ eng' = [eng EXCEPT ![self].np_random = r.np_random,
                             ![self].walker = r.walker]
       /\ hist' = [hist EXCEPT ![self] = Append(@, r)]
  /\ UNCHANGED <<graph, mutations>>

\* The graph is mutable between calls: edges come and go, nodes are added.
AddEdge ==
  /\ mutations < MaxMutations
  /\ \E e \in AllEdges(Range(graph.nodes)) \ graph.edges :
       graph' = [graph EXCEPT !.edges = @ \cup {e}]
  /\ mutations' = mutations + 1
  /\ UNCHANGED <<eng, hist>>

RemoveEdge ==
  /\ mutations < MaxMutations
  /\ \E e \in graph.edges : graph' = [graph EXCEPT !.edges = @ \ {e}]
  /\ mutations' = mutations + 1
  /\ UNCHANGED <<eng, hist>>

AddNode ==
  /\ mutations < MaxMutations
  /\ Len(graph.nodes) < MaxNodes
  /\ graph' = [graph EXCEPT !.nodes = Append(@, Len(@) + 1)]
  /\ mutations' = mutations + 1
  /\ UNCHANGED <<eng, hist>>

\* ------------------------------------------------------------ the inputs
NodeSeq(n) == [i \in 1..n |-> i]

\* Graphs on the nodes 1..n: no edge, one edge, a path, a star, all edges.
Graphs(n) ==
  { [nodes |-> NodeSeq(n), edges |-> es] :
      es \in { {},
               {{1, 2}} \cap AllEdges(1..n),
               {{i, i + 1} : i \in 1..(n - 1)},
               {{1, i} : i \in 2..n},
               AllEdges(1..n) } }

\* The nodes argument: omitted, one root, two roots, no root.
NodesArg(list) == [omitted |-> FALSE, list |-> list]
NodesOmitted == [omitted |-> TRUE, list |-> <<>>]
RootChoices(n) == {NodesOmitted, NodesArg(<<1>>), NodesArg(<<n, 1>>), NodesArg(<<>>)}

Seeds == 0..(NumSeeds - 1)

\* What an unseeded stream may start from.
Entropy == {9, 40}

\* A seed argument, with the entropy a construction without a seed reads.
SeedArgs == (Seeds \cup {None}) \X Entropy

BatchInputs == {IntArg(2), IntArg(4), IntArg(3)}

\* Both engines are constructed on the same graph with the same arguments but
\* for the seed.
InitWith(graphs, roots, lengths, counts, seeds1, seeds2) ==
  /\ graph \in graphs
  /\ \E r \in roots, l \in lengths, n \in counts, s1 \in seeds1, s2 \in seeds2 :
       eng = [e \in Engines |->
                LET s == IF e = 1 THEN s1 ELSE s2 IN
                UnsupervisedSampler(graph, r, l, n, s[1], s[2])]
  /\ hist = [e \in Engines |-> <<>>]
  /\ mutations = 0

\* ---------------------------------------------------------- specifications
\* One engine, called on a fixed graph.
Init ==
  \E s \in SeedArgs :
    InitWith(Graphs(MaxNodes), RootChoices(MaxNodes), 2..MaxLength, 1..MaxWalks,
             {s}, {s})

Run == \E batch_size \in BatchInputs : Call(1, batch_size)

Next == Run

Spec == Init /\ [][Next]_vars

\* Two engines constructed alike, each called on its own; the graph is fixed.
PairInputs == {IntArg(2), IntArg(4)}

InitPair ==
  InitWith({g \in Graphs(MaxNodes) : Cardinality(g.edges) >= MaxNodes - 1},
           {NodesOmitted}, {2}, {1}, SeedArgs, SeedArgs)

RunEither == \E e \in Engines, batch_size \in PairInputs : Call(e, batch_size)

NextPair == RunEither

SpecPair == InitPair /\ [][NextPair]_vars

\* One engine on a fixed graph, called with every kind of batch_size argument.
ArgInputs ==
  {NoneArg, FloatArg(2), BoolArg, IntArg(-2), IntArg(0), IntArg(1), IntArg(3),
   IntArg(2), IntArg(4)}

InitArgs ==
  \E s \in SeedArgs :
    InitWith({g \in Graphs(MaxNodes) : g.edges /= {}},
             {NodesOmitted, NodesArg(<<1>>)}, {2}, {1}, {s}, {s})

RunArgs == \E batch_size \in ArgInputs : Call(1, batch_size)

NextArgs == RunArgs

SpecArgs == InitArgs /\ [][NextArgs]_vars

\* One engine, with the graph mutated between its calls.
MutInputs == {IntArg(2), IntArg(3)}

InitMut ==
  InitWith(Graphs(MaxNodes - 1) \cup Graphs(MaxNodes),
           {NodesOmitted, NodesArg(<<1>>)}, {2}, {1},
           {<<0, 9>>, <<None, 40>>}, {<<0, 9>>})

RunMut == \E batch_size \in MutInputs : Call(1, batch_size)

NextMut == RunMut \/ AddEdge \/ RemoveEdge \/ AddNode

SpecMut == InitMut /\ [][NextMut]_vars

\* ------------------------------------------------------ what calls left
\* The latest call of every engine, and those of them that returned batches.
\* hist only grows, so every call is the latest in the state it leads to.
Called == {e \in Engines : hist[e] /= <<>>}
Latest(e) == hist[e][Len(hist[e])]
Calls == {Latest(e) : e \in Called}
OkCalls == {r \in Calls : r.status = "ok"}

\* All labels, and all pairs, of the returned batches, in batch order.
AllLabels(r) == Concat([b \in 1..Len(r.batches) |-> r.batches[b].labels])
AllPairs(r) == Concat([b \in 1..Len(r.batches) |-> r.batches[b].pairs])

\* A batch_size the documentation rules out.
Invalid(batch_size) ==
  \/ batch_size.kind = "none"
  \/ batch_size.kind /= "int"
  \/ batch_size.val <= 0
  \/ batch_size.val % 2 = 1

\* ----------------------------------------------------------------- claims
\* C1: over all batches a successful run returns, as many pairs are labelled 1
\* as are labelled 0: sum(labels) = len(labels) / 2, the total is even, and the
\* pool holds one negative pair per positive pair.
C1_OverallBalance ==
  \A r \in OkCalls :
    LET labels == AllLabels(r)
        npairs == Len(AllPairs(r))
    IN
    /\ Count(labels, 1) = Count(labels, 0)
    /\ 2 * SumSeq(labels) = Len(labels)
    /\ npairs % 2 = 0
    /\ npairs = 2 * Len(r.positive_pairs)
    /\ Len(r.negative_samples) = Len(r.positive_pairs)

C1_Witness ==
  \E r \in OkCalls : Len(r.batches) >= 2 /\ Len(r.positive_pairs) >= 3

\* C2: the index sets of the returned batches are pairwise disjoint, their union
\* is 0..2P-1, no index repeats inside a batch, every batch holds the pool's
\* pair and label at each of its indices, and pairs and labels of a batch have
\* the same length.
C2_BatchesPartitionPool ==
  \A r \in OkCalls :
    LET bi == r.batch_indices
        P == Len(r.positive_pairs)
    IN
    /\ Len(r.batches) = Len(bi)
    /\ UNION {Range(bi[b]) : b \in 1..Len(bi)} = 0..(2 * P - 1)
    /\ \A b, c \in 1..Len(bi) : b /= c => Range(bi[b]) \cap Range(bi[c]) = {}
    /\ \A b \in 1..Len(bi) :
         /\ Cardinality(Range(bi[b])) = Len(bi[b])
         /\ Len(r.batches[b].pairs) = Len(r.batches[b].labels)
         /\ Len(r.batches[b].pairs) = Len(bi[b])
         /\ \A k \in 1..Len(bi[b]) :
              /\ r.batches[b].pairs[k] = r.pairs[bi[b][k] + 1]
              /\ r.batches[b].labels[k] = r.labels[bi[b][k] + 1]

C2_Witness ==
  \E r \in OkCalls :
    /\ Len(r.batches) >= 2
    /\ r.indices /= [i \in 1..Len(r.indices) |-> i - 1]

\* C3: a successful run over a pool of 2P pairs returns ceil(2P / batch_size)
\* batches; all but the last hold batch_size pairs, the last holds 1..batch_size
\* pairs and is short exactly when 2P is no multiple of batch_size; none is empty.
C3_BatchCountAndSizes ==
  \A r \in OkCalls :
    LET n == 2 * Len(r.positive_pairs)
        bs == r.batch_size.val
        nb == Len(r.batches)
    IN
    /\ nb * bs >= n /\ (nb - 1) * bs < n
    /\ \A b \in 1..(nb - 1) : Len(r.batches[b].pairs) = bs
    /\ nb >= 1
    /\ Len(r.batches[nb].pairs) \in 1..bs
    /\ (Len(r.batches[nb].pairs) < bs) <=> (n % bs /= 0)
    /\ (bs > n) => (nb = 1 /\ Len(r.batches[1].pairs) = n)
    /\ \A b \in 1..nb : r.batches[b].pairs /= <<>>

C3_Witness ==
  \E r \in OkCalls :
    /\ Len(r.batches) >= 2
    /\ Len(r.batches[Len(r.batches)].pairs) < r.batch_size.val

\* C4: a call with a missing, non-integer, non-positive or odd batch_size fails
\* before any work: the walker is not invoked, neither stream moves, the engine
\* and the graph are as before, and every valid call that follows returns what
\* it would have returned without the rejected call.
C4_RejectedBeforeWork ==
  [][\A e \in Engines :
       (Len(hist'[e]) = Len(hist[e]) + 1 /\ Invalid(hist'[e][Len(hist'[e])].batch_size))
       => LET r == hist'[e][Len(hist'[e])] IN
          /\ Rejected(r.status)
          /\ r.walks = <<>> /\ r.batches = <<>>
          /\ eng' = eng /\ graph' = graph
          /\ \A b \in {IntArg(2), IntArg(4)} :
               run(graph', eng'[e], b) = run(graph, eng[e], b)]_vars

C4_Witness ==
  \E e \in Engines :
    /\ Len(hist[e]) >= 2
    /\ Invalid(hist[e][1].batch_size) /\ Rejected(hist[e][1].status)
    /\ hist[e][1].batch_size = IntArg(3)
    /\ hist[e][2].status = "ok"
    /\ hist[e][2].walker /= hist[e][1].walker

\* C6: when every node has degree zero, a call with a valid batch_size fails
\* with the error of the probability check of the weighted draw: nothing is
\* drawn from the degenerate distribution and no batch is returned.
C6_ZeroDegreesFail ==
  \A r \in Calls :
    (~Invalid(r.batch_size) /\ \A n \in Range(graph.nodes) : Degree(graph, n) = 0)
    => /\ r.status = "ValueError:probabilities"
       /\ r.negative_samples = <<>>
       /\ r.batches = <<>>

C6_Witness ==
  \E r \in Calls :
    /\ ~Invalid(r.batch_size)
    /\ graph.nodes /= <<>>
    /\ \A n \in Range(graph.nodes) : Degree(graph, n) = 0
    /\ r.status = "ValueError:probabilities"

\* Number of positive pairs the walks before walk k contribute.
Offset(walks, k) == SumSeq([j \in 1..(k - 1) |-> Len(walks[j]) - 1])

\* C7: the positive pairs are (walk[0], walk[i]), walk by walk in walker order
\* and, within a walk, for i = 1 .. len(walk)-1 in order; when every walk has
\* the configured length L, R roots and W walks per root give R * W * (L-1) pairs.
C7_PositivePairsFromWalks ==
  \A e \in Called :
    LET r == Latest(e)
        ws == r.walks
        pp == r.positive_pairs
    IN ~Rejected(r.status) =>
       /\ Len(pp) = Offset(ws, Len(ws) + 1)
       /\ \A j \in 1..Len(ws) : \A i \in 1..(Len(ws[j]) - 1) :
            pp[Offset(ws, j) + i] = <<ws[j][1], ws[j][i + 1]>>
       /\ (\A j \in 1..Len(ws) : Len(ws[j]) = eng[e].length)
          => Len(pp) = Len(eng[e].nodes) * eng[e].number_of_walks * (eng[e].length - 1)

C7_Witness ==
  \E e \in Called : \E r \in {Latest(e)} :
    /\ r.status = "ok"
    /\ eng[e].length = 3 /\ eng[e].number_of_walks = 2 /\ Len(eng[e].nodes) = 2
    /\ \A j \in 1..Len(r.walks) : Len(r.walks[j]) = 3
    /\ \E j \in 1..Len(r.walks) : r.walks[j][2] /= r.walks[j][1]

\* Positive pairs minus negative pairs of one batch.
Excess(batch) == Count(batch.labels, 1) - Count(batch.labels, 0)

TargetCount(pairs, labels, label, target) ==
  Cardinality({i \in 1..Len(pairs) : labels[i] = label /\ pairs[i][1] = target})

\* C9: the i-th negative pair has the i-th positive pair's target and a node of
\* the graph as context; a returned pair is labelled 1 iff it is a positive pair
\* of the pool; label-0 and label-1 pairs have the same multiset of targets and
\* every label-0 context is a node of the graph.
C9_NegativesMirrorTargets ==
  \A r \in OkCalls :
    LET P == Len(r.positive_pairs)
        out_pairs == AllPairs(r)
        out_labels == AllLabels(r)
    IN
    /\ \A i \in 1..P :
         /\ r.pairs[P + i][1] = r.positive_pairs[i][1]
         /\ r.pairs[P + i][2] \in Range(r.all_nodes)
         /\ r.pairs[i] = r.positive_pairs[i]
    /\ \A b \in 1..Len(r.batches) : \A k \in 1..Len(r.batches[b].pairs) :
         /\ (r.batches[b].labels[k] = 1) <=> (r.batch_indices[b][k] < P)
         /\ r.batches[b].pairs[k] = r.pairs[r.batch_indices[b][k] + 1]
    /\ \A n \in Range(r.all_nodes) \cup {q[1] : q \in Range(out_pairs)} :
         TargetCount(out_pairs, out_labels, 0, n)
           = TargetCount(out_pairs, out_labels, 1, n)
    /\ \A i \in 1..Len(out_pairs) :
         out_labels[i] = 0 => out_pairs[i][2] \in Range(graph.nodes)

C9_Witness ==
  \E r \in OkCalls :
    /\ Len(r.positive_pairs) >= 2
    /\ \E i \in 1..Len(r.positive_pairs) :
         r.negative_samples[i] /= r.positive_pairs[i][2]
    /\ \E i, j \in 1..Len(r.positive_pairs) :
         r.positive_pairs[i][1] /= r.positive_pairs[j][1]

\* The calls of engine e that passed the parameter check, in call order.
Accepted(e) == SelectSeq(hist[e], LAMBDA r : ~Rejected(r.status))

\* C5: two engines constructed alike with the same fixed seed return, call by
\* call over the same sequence of valid batch sizes, the same batches in the
\* same order; the stream moves with every successful call, so a call does not
\* repeat the call before it.
C5_SameSeedSameResults ==
  LET a == Accepted(1)
      b == Accepted(2)
  IN
  /\ (eng[1].seed = eng[2].seed /\ eng[1].seed /= None)
     => \A k \in 1..Len(a) :
          (k <= Len(b) /\ \A j \in 1..k : a[j].batch_size = b[j].batch_size)
          => (a[k].status = b[k].status /\ a[k].batches = b[k].batches)
  /\ \A e \in Engines : \A k \in 2..Len(hist[e]) :
       hist[e][k].status = "ok" => hist[e][k].np_random /= hist[e][k - 1].np_random

C5_Witness ==
  LET a == Accepted(1)
      b == Accepted(2)
  IN
  /\ eng[1].seed = eng[2].seed /\ eng[1].seed /= None
  /\ Len(a) = 2 /\ Len(b) = 2
  /\ \A j \in 1..2 : a[j].batch_size = b[j].batch_size /\ a[j].status = "ok"
  /\ a[2].batches = b[2].batches
  /\ a[2].batches /= a[1].batches
  /\ a[1].batch_size = a[2].batch_size

\* C10: every call computes the distribution anew from the graph as it is at
\* that call: one weight degree(n)^0.75 per node in enumeration order, negative
\* contexts drawn with exactly these weights from the current nodes, and never a
\* node whose current degree is zero; the engine's fields hold no distribution.
C10_DistributionIsFresh ==
  [][\A e \in Engines :
       (Len(hist'[e]) = Len(hist[e]) + 1 /\ ~Rejected(hist'[e][Len(hist'[e])].status))
       => LET r == hist'[e][Len(hist'[e])]
              fresh == [i \in 1..Len(graph.nodes) |->
                          Pow075(Degree(graph, graph.nodes[i]))]
          IN
          /\ r.all_nodes = graph.nodes
          /\ r.weights = fresh
          /\ \A i \in 1..Len(r.negative_samples) :
               /\ r.negative_samples[i] \in Range(graph.nodes)
               /\ Degree(graph, r.negative_samples[i]) > 0
          /\ r.status = "ok" =>
               r.negative_samples =
                 DrawSamples(eng[e].np_random, graph.nodes,
                             [num |-> fresh, den |-> SumSeq(fresh)],
                             Len(r.positive_pairs)).samples
          /\ DOMAIN eng'[e] =
               {"walker", "nodes", "length", "number_of_walks", "seed", "np_random"}]_vars

\* Two successful calls with a mutation between them that left a node, drawn as
\* a negative context by the first call, without any edge at the second.
C10_Witness ==
  /\ Len(hist[1]) = 2
  /\ hist[1][1].status = "ok" /\ hist[1][2].status = "ok"
  /\ \E i \in 1..Len(hist[1][1].all_nodes) :
       /\ hist[1][1].weights[i] > 0
       /\ hist[1][2].weights[i] = 0
       /\ hist[1][1].all_nodes[i] \in Range(hist[1][1].negative_samples)

====
